---- MODULE Spec2Model ----
(***************************************************************************)
(* TriteDB: the trie engine (src/src/trie.c, src/src/list.c) and the       *)
(* command handlers and TTL sweep of the single-threaded epoll server      *)
(* (src/src/server.c), as a state machine.                                 *)
(*                                                                         *)
(* Two specifications: Spec is the command handlers and the TTL sweep on   *)
(* connections that stay open; ConnSpec is the life of a connection under  *)
(* run_server (accept, read and dispatch, reply, close).                   *)
(*                                                                         *)
(* A trie is a map from paths (the bytes spelled from the root) to nodes;  *)
(* a node holds its children list, as the chr of each child in list order, *)
(* and its ndata, <<>> for NULL or <<item>>.  Byte strings are sequences   *)
(* of byte codes.                                                          *)
(***************************************************************************)
EXTENDS Integers, Sequences, FiniteSets, TLC

VARIABLES
    charSigned,     \* whether plain char is signed in this build
    now,            \* time(NULL), in seconds since the server started
    dbs,            \* tritedb.dbs: database name -> Trie
    expiring_keys,  \* tritedb.expiring_keys: vector of struct expiring_key
    keyspace_size,  \* tritedb.keyspace_size
    cdb,            \* client -> name of the database in client->db
    request,        \* opcode and flags of the request dispatched last
    reply,          \* the reply its handler set (client->reply)
    nrequests,      \* info.nrequests
    event,          \* the event run_server dispatched last
    crashed,        \* the process faulted or wrote through a dangling pointer:
                    \* what it does next is not defined
    conns,          \* client -> its socket, its struct client and the bytes
                    \* it has sent that the server has not read yet
    nclients,       \* info.nclients
    recv,           \* the locals of one call of recv_packet and its socket
    run,            \* the counter of the eventfd conf->run
    loop,           \* where the thread of start_server is
    evs,            \* the events epoll_wait returned that the for loop of
                    \* run_server has not reached yet
    active          \* the callbacks run_server has called that have not
                    \* returned

\* The thread of start_server and run_server
loopvars == <<run, loop, evs, active>>

vars == <<charSigned, now, dbs, expiring_keys, keyspace_size, cdb, request,
          reply, nrequests, event, crashed, conns, nclients, recv, loopvars>>

---------------------------------------------------------------------------
(* Bounds of the model *)

MaxKeyLen == 2
MaxRequests == 3
MaxTime == 1
MaxTtl == 1

(* Program constants *)

NOTTL == 1
OK == 0
NOK == 1

\* Key bytes: 'a' and 0xC8, a byte above 127
Alphabet == {97, 200}

\* The value clients send is "0"; INC and DEC turn it into "1", "-1", ...
Vals == {<<48>>}

Keys == UNION {[1..n -> Alphabet] : n \in 0..MaxKeyLen}

Clients == {"c1", "c2"}

DbNames == {"db0", "db1"}

TtlVals == 0..MaxTtl

---------------------------------------------------------------------------
(* src/src/list.c *)

\* The value of a char in an int comparison: bytes above 127 are negative
\* where plain char is signed.
CharVal(b) == IF charSigned /\ b >= 128 THEN b - 256 ELSE b

RECURSIVE ls_scan(_, _, _)
ls_scan(list, value, i) ==
    IF i > Len(list) THEN 0
    ELSE IF CharVal(list[i]) = CharVal(value) THEN i
    ELSE IF CharVal(list[i]) > CharVal(value) THEN 0
    ELSE ls_scan(list, value, i + 1)

\* Index of the child with chr = value, 0 for NULL
linear_search(list, value) ==
    IF Len(list) = 0 THEN 0 ELSE ls_scan(list, value, 1)

list_push(list, c) == <<c>> \o list

RECURSIVE list_node_remove(_, _)
list_node_remove(list, c) ==
    IF list = <<>> THEN <<>>
    ELSE IF Head(list) = c THEN Tail(list)
    ELSE <<Head(list)>> \o list_node_remove(Tail(list), c)

\* list_remove with the comparison with_char of trie.c
list_remove(list, c) == list_node_remove(list, c)

RECURSIVE bisect_walk(_, _, _)
bisect_walk(n, fast, slow) ==
    IF fast <= n /\ fast + 1 <= n
    THEN bisect_walk(n, fast + 2, slow + 1)
    ELSE slow

\* Number of nodes left in the first half
bisect_list(head) == bisect_walk(Len(head), 1, 1) - 1

RECURSIVE merge_tnode_list(_, _)
merge_tnode_list(list1, list2) ==
    IF list1 = <<>> THEN list2
    ELSE IF list2 = <<>> THEN list1
    ELSE IF CharVal(Head(list1)) <= CharVal(Head(list2))
         THEN <<Head(list1)>> \o merge_tnode_list(Tail(list1), list2)
         ELSE <<Head(list2)>> \o merge_tnode_list(list1, Tail(list2))

\* The list left as list_push made it
merge_sort_tnode_none(head) == head

RECURSIVE merge_sort_tnode(_)
merge_sort_tnode(head) ==
    IF Len(head) <= 1 THEN head
    ELSE LET k == bisect_list(head)
         IN  merge_tnode_list(merge_sort_tnode(SubSeq(head, 1, k)),
                              merge_sort_tnode(SubSeq(head, k + 1, Len(head))))

---------------------------------------------------------------------------
(* src/src/trie.c *)

IsPrefix(p, k) == Len(p) <= Len(k) /\ SubSeq(k, 1, Len(p)) = p

trie_create_node == [children |-> <<>>, ndata |-> <<>>]

\* freed: the root node has been released and trie->root dangles
trie_create == [freed |-> FALSE, nodes |-> (<<>> :> trie_create_node), size |-> 0]

trie_is_free_node(node) == Len(node.children) = 0

\* Whether the walk along prefix, from the node i bytes deep, finds a node
RECURSIVE trie_node_find(_, _, _)
trie_node_find(N, prefix, i) ==
    IF i = Len(prefix) THEN TRUE
    ELSE IF linear_search(N[SubSeq(prefix, 1, i)].children, prefix[i + 1]) = 0
         THEN FALSE
         ELSE trie_node_find(N, prefix, i + 1)

RECURSIVE trie_node_count(_, _)
RECURSIVE count_children(_, _, _)
count_children(N, p, list) ==
    IF list = <<>> THEN 0
    ELSE trie_node_count(N, Append(p, Head(list))) + count_children(N, p, Tail(list))

\* The item of a node that has children left out of the count
trie_node_count_leaves(N, p) ==
    IF trie_is_free_node(N[p]) THEN (IF N[p].ndata # <<>> THEN 1 ELSE 0)
    ELSE count_children(N, p, N[p].children)

trie_node_count(N, p) ==
    IF trie_is_free_node(N[p]) /\ N[p].ndata # <<>> THEN 1
    ELSE count_children(N, p, N[p].children)
         + (IF N[p].ndata # <<>> THEN 1 ELSE 0)

\* The walk of trie_node_insert: creates the missing nodes along key
RECURSIVE insert_walk(_, _, _)
insert_walk(N, key, i) ==
    IF i = Len(key) THEN N
    ELSE LET p == SubSeq(key, 1, i)
             c == key[i + 1]
         IN  IF linear_search(N[p].children, c) = 0
             THEN insert_walk(
                    (Append(p, c) :> trie_create_node) @@
                    [N EXCEPT ![p].children = merge_sort_tnode(list_push(@, c))],
                    key, i + 1)
             ELSE insert_walk(N, key, i + 1)

\* The size incremented whether or not the node already bears an item
trie_node_insert_grow(T, key, data, t) ==
    LET N1 == insert_walk(T.nodes, key, 0)
        item == [data |-> data, ttl |-> -NOTTL, ctime |-> t, latime |-> t]
    IN  [T EXCEPT !.nodes = [N1 EXCEPT ![key].ndata = <<item>>],
                  !.size = @ + 1]

trie_node_insert(T, key, data, t) ==
    LET N1 == insert_walk(T.nodes, key, 0)
        item == [data |-> data, ttl |-> -NOTTL, ctime |-> t, latime |-> t]
    IN  [T EXCEPT !.nodes = [N1 EXCEPT ![key].ndata = <<item>>],
                  !.size = IF N1[key].ndata # <<>> THEN @ ELSE @ + 1]

trie_insert(T, key, data, t) == trie_node_insert(T, key, data, t)

\* The decrement left out
dec_size_never(size) == size

\* if (*size > 0) (*size)--
dec_size(size) == IF size > 0 THEN size - 1 ELSE size

RECURSIVE trie_node_free(_, _, _)
RECURSIVE free_children(_, _, _, _)
free_children(N, p, list, size) ==
    IF list = <<>> THEN [nodes |-> N, size |-> size]
    ELSE LET r == trie_node_free(N, Append(p, Head(list)), size)
         IN  free_children(r.nodes, p, Tail(list), r.size)

trie_node_free(N, p, size) ==
    IF p \notin DOMAIN N THEN [nodes |-> N, size |-> size]
    ELSE LET r == free_children(N, p, N[p].children, size)
         IN  [nodes |-> [q \in DOMAIN r.nodes \ {p} |-> r.nodes[q]],
              size |-> IF N[p].ndata # <<>> THEN dec_size(r.size) ELSE r.size]

\* node is the node i bytes deep along key
RECURSIVE trie_node_recursive_delete(_, _, _, _)
trie_node_recursive_delete(N, key, i, size) ==
    LET p == SubSeq(key, 1, i)
        no == [nodes |-> N, size |-> size, found |-> FALSE, ret |-> FALSE]
    IN  IF i = Len(key)
        THEN IF N[p].ndata # <<>>
             THEN [nodes |-> [N EXCEPT ![p].ndata = <<>>],
                   size |-> dec_size(size),
                   found |-> TRUE,
                   ret |-> trie_is_free_node(N[p])]
             ELSE no
        ELSE IF linear_search(N[p].children, key[i + 1]) = 0 THEN no
        ELSE LET r == trie_node_recursive_delete(N, key, i + 1, size)
             IN  IF r.ret
                 THEN LET N1 == [r.nodes EXCEPT
                                   ![p].children = list_remove(@, key[i + 1])]
                          f == trie_node_free(N1, Append(p, key[i + 1]), r.size)
                      IN  [nodes |-> f.nodes, size |-> f.size, found |-> r.found,
                           ret |-> f.nodes[p].ndata = <<>>
                                   /\ trie_is_free_node(f.nodes[p])]
                 ELSE [r EXCEPT !.ret = FALSE]

\* [trie, found]
trie_delete(T, key) ==
    IF Len(key) > 0
    THEN LET r == trie_node_recursive_delete(T.nodes, key, 0, T.size)
         IN  [trie |-> [T EXCEPT !.nodes = r.nodes, !.size = r.size],
              found |-> r.found]
    ELSE [trie |-> T, found |-> FALSE]

\* <<>> for NULL, <<item>> otherwise
trie_find(T, key) ==
    IF trie_node_find(T.nodes, key, 0) THEN T.nodes[key].ndata ELSE <<>>

trie_prefix_delete(T, prefix) ==
    IF ~trie_node_find(T.nodes, prefix, 0) THEN T
    ELSE IF Len(T.nodes[prefix].children) = 0 THEN trie_delete(T, prefix).trie
    ELSE LET f == free_children(T.nodes, prefix, T.nodes[prefix].children, T.size)
             d == trie_delete([T EXCEPT !.nodes = f.nodes, !.size = f.size],
                              prefix).trie
         IN  [d EXCEPT !.nodes[prefix].children = <<>>]

\* The count taken from the root whatever the prefix
trie_prefix_count_root(T, prefix) ==
    IF ~trie_node_find(T.nodes, prefix, 0) THEN 0
    ELSE trie_node_count(T.nodes, <<>>)

trie_prefix_count(T, prefix) ==
    IF ~trie_node_find(T.nodes, prefix, 0) THEN 0
    ELSE trie_node_count(T.nodes, prefix)

RECURSIVE trie_node_prefix_set(_, _, _, _, _)
RECURSIVE prefix_set_children(_, _, _, _, _, _)
prefix_set_children(N, p, list, val, ttl, t) ==
    IF list = <<>> THEN N
    ELSE prefix_set_children(
            trie_node_prefix_set(N, Append(p, Head(list)), val, ttl, t),
            p, Tail(list), val, ttl, t)

trie_node_prefix_set(N, p, val, ttl, t) ==
    LET N1 == prefix_set_children(N, p, N[p].children, val, ttl, t)
    IN  IF N1[p].ndata # <<>>
        THEN [N1 EXCEPT ![p].ndata =
                <<[@[1] EXCEPT !.data = val, !.ttl = ttl, !.latime = t]>>]
        ELSE N1

trie_prefix_set(T, prefix, val, ttl, t) ==
    IF ~trie_node_find(T.nodes, prefix, 0) THEN T
    ELSE [T EXCEPT !.nodes = trie_node_prefix_set(T.nodes, prefix, val, ttl, t)]

RECURSIVE trie_node_prefix_find(_, _)
RECURSIVE prefix_find_children(_, _, _)
prefix_find_children(N, p, list) ==
    IF list = <<>> THEN <<>>
    ELSE trie_node_prefix_find(N, Append(p, Head(list)))
         \o prefix_find_children(N, p, Tail(list))

trie_node_prefix_find(N, p) ==
    (IF N[p].ndata # <<>> THEN <<p>> ELSE <<>>)
    \o prefix_find_children(N, p, N[p].children)

\* [null, keys]: null when no node spells the prefix
trie_prefix_find(T, prefix) ==
    IF ~trie_node_find(T.nodes, prefix, 0)
    THEN [null |-> TRUE, keys |-> <<>>]
    ELSE [null |-> FALSE, keys |-> trie_node_prefix_find(T.nodes, prefix)]

(* src/src/util.c *)

isdigit(c) == c \in 48..57

is_integer(s) == \A i \in 1..Len(s) : isdigit(s[i])

RECURSIVE parse_int_from(_, _, _)
parse_int_from(s, i, n) ==
    IF i <= Len(s) /\ isdigit(s[i])
    THEN parse_int_from(s, i + 1, (n * 10) + (s[i] - 48))
    ELSE n

parse_int(s) == parse_int_from(s, 1, 0)

RECURSIVE digits(_)
digits(n) == IF n < 10 THEN <<48 + n>> ELSE Append(digits(n \div 10), 48 + (n % 10))

\* sprintf(tmp, "%d", n)
sprintf_d(n) == IF n < 0 THEN <<45>> \o digits(-n) ELSE digits(n)

(* src/src/trie.c, continued *)

RECURSIVE trie_node_integer_mod(_, _, _, _)
RECURSIVE integer_mod_children(_, _, _, _, _)
integer_mod_children(N, p, list, inc, t) ==
    IF list = <<>> THEN N
    ELSE integer_mod_children(
            trie_node_integer_mod(N, Append(p, Head(list)), inc, t),
            p, Tail(list), inc, t)

trie_node_integer_mod(N, p, inc, t) ==
    IF trie_is_free_node(N[p]) /\ N[p].ndata = <<>> THEN N
    ELSE LET N1 == IF N[p].ndata # <<>> /\ is_integer(N[p].ndata[1].data)
                   THEN LET n == parse_int(N[p].ndata[1].data)
                        IN  [N EXCEPT ![p].ndata =
                               <<[@[1] EXCEPT
                                    !.data = sprintf_d(IF inc THEN n + 1 ELSE n - 1),
                                    !.latime = t]>>]
                   ELSE N
         IN  integer_mod_children(N1, p, N1[p].children, inc, t)

trie_prefix_inc(T, prefix, t) ==
    IF ~trie_node_find(T.nodes, prefix, 0) THEN T
    ELSE [T EXCEPT !.nodes = trie_node_integer_mod(T.nodes, prefix, TRUE, t)]

trie_prefix_dec(T, prefix, t) ==
    IF ~trie_node_find(T.nodes, prefix, 0) THEN T
    ELSE [T EXCEPT !.nodes = trie_node_integer_mod(T.nodes, prefix, FALSE, t)]

---------------------------------------------------------------------------
(* src/src/server.c: requests, replies and the outcome of a handler *)

\* What the model keeps of a dispatched request: the opcode of its header and
\* whether the command carries the prefix flag or no key at all
Req(op, is_prefix, nokey) ==
    [op |-> op, is_prefix |-> is_prefix, nokey |-> nokey]

NoRequest == Req("NONE", FALSE, TRUE)

NoReply == [kind |-> "NONE", rc |-> OK, data |-> <<>>, val |-> 0, keys |-> <<>>]

\* set_ack_reply
AckReply(rc) == [NoReply EXCEPT !.kind = "ACK", !.rc = rc]

\* make_data_response
DataReply(data) == [NoReply EXCEPT !.kind = "DATA", !.data = data]

\* make_valuecontent_response
CountReply(n) == [NoReply EXCEPT !.kind = "COUNT", !.val = n]

\* make_list_response; a NULL list is packed as no keys
ListReply(keys) == [NoReply EXCEPT !.kind = "LIST", !.keys = keys]

\* The item-bearing nodes of a trie are its stored keys
Stored(T, key) ==
    ~T.freed /\ key \in DOMAIN T.nodes /\ T.nodes[key].ndata # <<>>

\* An expiring_key's nd points to the node_data of its key for as long as that
\* node_data is allocated; once it is released nd dangles (nd_valid = FALSE).
Revalidate(E, D) ==
    [i \in 1..Len(E) |->
        [E[i] EXCEPT !.nd_valid = @ /\ Stored(D[E[i].data_ptr], E[i].key)]]

\* A handler that returns: the state it leaves, the reply it set and the
\* number of struct expiring_key it allocated and neither stored nor freed
Out(D, E, K, R) ==
    [dbs |-> D, expiring_keys |-> Revalidate(E, D), keyspace_size |-> K,
     cdb |-> cdb, reply |-> R, crashed |-> FALSE, leaked |-> 0]

\* A handler that faults on a dangling pointer: the process is killed
CrashOut ==
    [dbs |-> dbs, expiring_keys |-> expiring_keys, keyspace_size |-> keyspace_size,
     cdb |-> cdb, reply |-> NoReply, crashed |-> TRUE, leaked |-> 0]

\* An unsigned 64-bit comparison d1 <= d2 of two differences computed modulo
\* 2^64: a negative difference wraps to a value above every non-negative one.
U64Leq(d1, d2) ==
    IF (d1 < 0) = (d2 < 0) THEN d1 <= d2 ELSE d2 < 0

\* ctime + ttl - now of the node_data an expiring_key points to
Remaining(ek, D, t) ==
    LET nd == D[ek.data_ptr].nodes[ek.key].ndata[1]
    IN  nd.ctime + nd.ttl - t

compare_ttl(ek1, ek2, D, t) ==
    U64Leq(Remaining(ek1, D, t), Remaining(ek2, D, t))

Perms(n) == {f \in [1..n -> 1..n] : \A i, j \in 1..n : i # j => f[i] # f[j]}

\* The orders vector_qsort may leave: sorted by compare_ttl, where the
\* comparison reads released memory for an entry whose nd dangles and so
\* places it anywhere.
vector_qsort(E, D, t) ==
    {[i \in 1..Len(E) |-> E[f[i]]] : f \in
        {g \in Perms(Len(E)) :
            \A i, j \in 1..Len(E) :
                (i < j /\ E[g[i]].nd_valid /\ E[g[j]].nd_valid)
                    => compare_ttl(E[g[i]], E[g[j]], D, t)}}

vector_append(E, ek) == Append(E, ek)

\* Removes the entry at 0-based index i
vector_delete(E, i) == SubSeq(E, 1, i) \o SubSeq(E, i + 2, Len(E))

put_data_into_trie(db, key, val, cmd_ttl, is_prefix) ==
    LET T == dbs[db]
        ttl == IF cmd_ttl # 0 THEN cmd_ttl ELSE -NOTTL
    IN  IF is_prefix
        THEN IF T.freed
             THEN {CrashOut} \cup
                  (IF Len(key) = 0 THEN {}
                   ELSE {Out(dbs, expiring_keys, keyspace_size, AckReply(OK))})
             ELSE {Out([dbs EXCEPT ![db] = trie_prefix_set(T, key, val, ttl, now)],
                       expiring_keys, keyspace_size, AckReply(OK))}
        ELSE IF T.freed THEN {CrashOut}
        ELSE LET T1 == trie_insert(T, key, val, now)
                 has_ttl == T1.nodes[key].ndata[1].ttl # -NOTTL
                 T2 == [T1 EXCEPT !.nodes[key].ndata =
                            <<[@[1] EXCEPT !.ttl = cmd_ttl, !.ctime = now,
                                           !.latime = now]>>]
                 ek == [key |-> key, data_ptr |-> db, nd_valid |-> TRUE]
             IN  IF ttl # -NOTTL
                 THEN {[Out(D2, E, keyspace_size + 1, AckReply(OK))
                          EXCEPT !.leaked = IF has_ttl THEN 1 ELSE 0] :
                        D2 \in {[dbs EXCEPT ![db] = T2]},
                        E \in vector_qsort(
                                IF has_ttl THEN expiring_keys
                                ELSE vector_append(expiring_keys, ek),
                                [dbs EXCEPT ![db] = T2], now)}
                 ELSE {Out([dbs EXCEPT ![db] = T1], expiring_keys,
                           keyspace_size + 1, AckReply(OK))}

\* The write made to the default database instead of the selected one
put_handler_db0(c, key, val, cmd_ttl, is_prefix) ==
    put_data_into_trie("db0", key, val, cmd_ttl, is_prefix)

put_handler(c, key, val, cmd_ttl, is_prefix) ==
    put_data_into_trie(cdb[c], key, val, cmd_ttl, is_prefix)

\* The test with the last second of the TTL granted to the item
expired_late(nd, t) ==
    LET delta == (nd.ctime + nd.ttl) - t
    IN  nd.ttl # -NOTTL /\ delta < 0

\* The test of get_handler on the item found: its TTL has elapsed at time t
expired(nd, t) ==
    LET delta == (nd.ctime + nd.ttl) - t
    IN  nd.ttl # -NOTTL /\ delta <= 0

get_handler(c, key) ==
    LET db == cdb[c]
        T == dbs[db]
    IN  IF T.freed
        THEN {CrashOut, Out(dbs, expiring_keys, keyspace_size, AckReply(NOK))}
        ELSE LET val == trie_find(T, key)
             IN  IF val = <<>>
                 THEN {Out(dbs, expiring_keys, keyspace_size, AckReply(NOK))}
                 ELSE LET nd == val[1]
                      IN  IF expired(nd, now)
                          THEN {Out([dbs EXCEPT ![db] = trie_delete(T, key).trie],
                                    expiring_keys, keyspace_size - 1,
                                    AckReply(NOK))}
                          ELSE {Out([dbs EXCEPT ![db].nodes[key].ndata =
                                        <<[nd EXCEPT !.latime = now]>>],
                                    expiring_keys, keyspace_size,
                                    DataReply(nd.data))}

ttl_handler(c, key, cmd_ttl) ==
    LET db == cdb[c]
        T == dbs[db]
    IN  IF T.freed
        THEN {CrashOut, Out(dbs, expiring_keys, keyspace_size, AckReply(NOK))}
        ELSE LET val == trie_find(T, key)
             IN  IF val = <<>>
                 THEN {Out(dbs, expiring_keys, keyspace_size, AckReply(NOK))}
                 ELSE LET has_ttl == val[1].ttl # -NOTTL
                          D2 == [dbs EXCEPT ![db].nodes[key].ndata =
                                    <<[val[1] EXCEPT !.ttl = cmd_ttl, !.ctime = now,
                                                     !.latime = now]>>]
                          ek == [key |-> key, data_ptr |-> db, nd_valid |-> TRUE]
                      IN  {[Out(D2, E, keyspace_size, AckReply(OK))
                                EXCEPT !.leaked = IF has_ttl THEN 1 ELSE 0] :
                             E \in vector_qsort(
                                     IF has_ttl THEN expiring_keys
                                     ELSE vector_append(expiring_keys, ek),
                                     D2, now)}

\* cmd->len == 0 (nokey) flushes; otherwise one key, point or prefix
del_handler(c, key, is_prefix, nokey) ==
    LET db == cdb[c]
        T == dbs[db]
    IN  IF nokey
        THEN IF T.freed
             THEN {CrashOut,
                   Out(dbs, expiring_keys, keyspace_size - 1, AckReply(OK))}
             ELSE LET f == trie_node_free(T.nodes, <<>>, T.size)
                  IN  {Out([dbs EXCEPT ![db] =
                                [freed |-> TRUE, nodes |-> f.nodes, size |-> f.size]],
                           expiring_keys, keyspace_size - 1, AckReply(OK))}
        ELSE IF is_prefix
        THEN IF T.freed
             THEN {CrashOut} \cup
                  (IF Len(key) = 0 THEN {}
                   ELSE {Out(dbs, expiring_keys, keyspace_size, AckReply(OK))})
             ELSE LET T1 == trie_prefix_delete(T, key)
                  IN  {Out([dbs EXCEPT ![db] = T1], expiring_keys,
                           keyspace_size - (T.size - T1.size), AckReply(OK))}
        ELSE IF T.freed
        THEN (IF Len(key) = 0 THEN {} ELSE {CrashOut}) \cup
             {Out(dbs, expiring_keys, keyspace_size - 1, AckReply(NOK))}
        ELSE LET d == trie_delete(T, key)
             IN  {Out([dbs EXCEPT ![db] = d.trie], expiring_keys,
                      keyspace_size - 1,
                      AckReply(IF d.found THEN OK ELSE NOK))}

count_handler(c, key, nokey) ==
    LET T == dbs[cdb[c]]
    IN  IF nokey
        THEN {Out(dbs, expiring_keys, keyspace_size, CountReply(T.size))}
        ELSE IF T.freed
        THEN {CrashOut} \cup
             (IF Len(key) = 0 THEN {}
              ELSE {Out(dbs, expiring_keys, keyspace_size, CountReply(0))})
        ELSE {Out(dbs, expiring_keys, keyspace_size,
                  CountReply(trie_prefix_count(T, key)))}

keys_handler(c, key) ==
    LET T == dbs[cdb[c]]
    IN  IF T.freed
        THEN {CrashOut} \cup
             (IF Len(key) = 0 THEN {}
              ELSE {Out(dbs, expiring_keys, keyspace_size, ListReply(<<>>))})
        ELSE {Out(dbs, expiring_keys, keyspace_size,
                  ListReply(trie_prefix_find(T, key).keys))}

\* The selection made for every client instead of the requesting one
use_handler_all(c, name) ==
    LET D2 == IF name \in DOMAIN dbs THEN dbs ELSE (name :> trie_create) @@ dbs
    IN  {[Out(D2, expiring_keys, keyspace_size, AckReply(OK))
            EXCEPT !.cdb = [x \in Clients |-> name]]}

use_handler(c, name) ==
    LET D2 == IF name \in DOMAIN dbs THEN dbs ELSE (name :> trie_create) @@ dbs
    IN  {[Out(D2, expiring_keys, keyspace_size, AckReply(OK))
            EXCEPT !.cdb = [cdb EXCEPT ![c] = name]]}

\* The body shared by inc_handler (inc = TRUE) and dec_handler
incdec_handler(c, key, is_prefix, inc) ==
    LET db == cdb[c]
        T == dbs[db]
    IN  IF T.freed
        THEN {CrashOut} \cup
             (IF Len(key) = 0 /\ is_prefix THEN {}
              ELSE {Out(dbs, expiring_keys, keyspace_size,
                        AckReply(IF is_prefix THEN OK ELSE NOK))})
        ELSE IF is_prefix
        THEN {Out([dbs EXCEPT ![db] = IF inc THEN trie_prefix_inc(T, key, now)
                                      ELSE trie_prefix_dec(T, key, now)],
                  expiring_keys, keyspace_size, AckReply(OK))}
        ELSE LET val == trie_find(T, key)
             IN  IF val = <<>> \/ ~is_integer(val[1].data)
                 THEN {Out(dbs, expiring_keys, keyspace_size, AckReply(NOK))}
                 ELSE LET n == parse_int(val[1].data)
                      IN  {Out([dbs EXCEPT ![db].nodes[key].ndata =
                                  <<[val[1] EXCEPT !.data =
                                       sprintf_d(IF inc THEN n + 1 ELSE n - 1)]>>],
                               expiring_keys, keyspace_size, AckReply(OK))}

inc_handler(c, key, is_prefix) == incdec_handler(c, key, is_prefix, TRUE)

dec_handler(c, key, is_prefix) == incdec_handler(c, key, is_prefix, FALSE)

\* The ways trie_delete(ek->data_ptr, ek->key) of the sweep ends: the tries it
\* leaves, or "crash"
SweepDelete(D, ek) ==
    LET T == D[ek.data_ptr]
    IN  IF T.freed
        THEN (IF Len(ek.key) = 0 THEN {} ELSE {[crash |-> TRUE, dbs |-> D]})
             \cup {[crash |-> FALSE, dbs |-> D]}
        ELSE {[crash |-> FALSE,
               dbs |-> [D EXCEPT ![ek.data_ptr] = trie_delete(T, ek.key).trie]]}

\* The loop of expire_keys from index s.i on: the states it may end in.  The
\* delta read through a dangling nd is any value.
RECURSIVE expire_loop(_)
expire_loop(s) ==
    IF s.crashed \/ s.i >= Len(s.expiring_keys) THEN {s}
    ELSE LET ek == s.expiring_keys[s.i + 1]
             positive == IF ek.nd_valid
                         THEN {Remaining(ek, s.dbs, now) > 0}
                         ELSE BOOLEAN
         IN  UNION {
               IF pos THEN {s}
               ELSE UNION {
                 IF d.crash THEN {[s EXCEPT !.crashed = TRUE]}
                 ELSE expire_loop(
                        [s EXCEPT !.dbs = d.dbs,
                                  !.expiring_keys =
                                      Revalidate(vector_delete(@, s.i), d.dbs),
                                  !.keyspace_size = @ - 1,
                                  !.i = @ + 1])
                 : d \in SweepDelete(s.dbs, ek)}
               : pos \in positive}

expire_keys ==
    expire_loop([i |-> 0, dbs |-> dbs, expiring_keys |-> expiring_keys,
                 keyspace_size |-> keyspace_size, crashed |-> FALSE])

---------------------------------------------------------------------------
(* src/src/server.c: struct client and its socket *)

\* A slot no connection uses: no socket, no struct client in tritedb.clients
no_client ==
    [sock |-> "closed", registered |-> FALSE, ctx_handler |-> "request_handler",
     events |-> "NONE", reply |-> NoReply, inbuf |-> <<>>]

\* The struct client accept_handler builds and adds to the epoll loop
accepted_client ==
    [sock |-> "open", registered |-> TRUE, ctx_handler |-> "request_handler",
     events |-> "EPOLLIN", reply |-> NoReply, inbuf |-> <<>>]

---------------------------------------------------------------------------
(* The events of run_server *)

\* No call of recv_packet is looked into
NoRecv == [pc |-> "none"]

\* run_server is about to call epoll_wait for the first time; no signal has
\* been delivered
LoopInit ==
    /\ run = 0
    /\ loop = "epoll_wait"
    /\ evs = <<>>
    /\ active = {}

\* A step that follows neither a call of recv_packet nor the thread of
\* run_server through its loop
SameLoop == UNCHANGED <<recv, loopvars>>

Init ==
    /\ charSigned \in BOOLEAN
    /\ now = 0
    /\ dbs = ("db0" :> trie_create)
    /\ expiring_keys = <<>>
    /\ keyspace_size = 0
    /\ cdb = [c \in Clients |-> "db0"]
    /\ request = NoRequest
    /\ reply = NoReply
    /\ nrequests = 0
    /\ event = "start"
    /\ crashed = FALSE
    /\ conns = [c \in Clients |-> accepted_client]
    /\ nclients = Cardinality(Clients)
    /\ recv = NoRecv
    /\ LoopInit

\* request_handler dispatching req to the handler whose outcomes are outs
Handle(req, outs) ==
    /\ ~crashed
    /\ nrequests < MaxRequests
    /\ \E o \in outs :
        /\ dbs' = o.dbs
        /\ expiring_keys' = o.expiring_keys
        /\ keyspace_size' = o.keyspace_size
        /\ cdb' = o.cdb
        /\ reply' = o.reply
        /\ crashed' = o.crashed
        /\ nrequests' = IF o.crashed THEN nrequests ELSE nrequests + 1
    /\ request' = req
    /\ event' = "request"
    /\ UNCHANGED <<charSigned, now, conns, nclients>>

Put(c, key, val, ttl, is_prefix) ==
    Handle(Req("PUT", is_prefix, FALSE),
           put_handler(c, key, val, ttl, is_prefix))

Get(c, key) ==
    Handle(Req("GET", FALSE, FALSE), get_handler(c, key))

Ttl(c, key, ttl) ==
    Handle(Req("TTL", FALSE, FALSE), ttl_handler(c, key, ttl))

Del(c, key, is_prefix) ==
    Handle(Req("DEL", is_prefix, FALSE),
           del_handler(c, key, is_prefix, FALSE))

Flush(c) ==
    Handle(Req("DEL", FALSE, TRUE),
           del_handler(c, <<>>, FALSE, TRUE))

Inc(c, key, is_prefix) ==
    Handle(Req("INC", is_prefix, FALSE),
           inc_handler(c, key, is_prefix))

Dec(c, key, is_prefix) ==
    Handle(Req("DEC", is_prefix, FALSE),
           dec_handler(c, key, is_prefix))

Count(c, key, nokey) ==
    Handle(Req("COUNT", FALSE, nokey),
           count_handler(c, key, nokey))

KeysCmd(c, key) ==
    Handle(Req("KEYS", TRUE, FALSE), keys_handler(c, key))

Use(c, name) ==
    Handle(Req("USE", FALSE, FALSE), use_handler(c, name))

\* The expiry timer fires: expire_keys
Sweep ==
    /\ ~crashed
    /\ event' = "timer"
    /\ \E s \in expire_keys :
        /\ dbs' = s.dbs
        /\ expiring_keys' = s.expiring_keys
        /\ keyspace_size' = s.keyspace_size
        /\ crashed' = s.crashed
    /\ UNCHANGED <<charSigned, now, cdb, request, reply, nrequests, conns,
                   nclients>>

\* A second passes
Tick ==
    /\ ~crashed
    /\ now < MaxTime
    /\ now' = now + 1
    /\ event' = "tick"
    /\ UNCHANGED <<charSigned, dbs, expiring_keys, keyspace_size, cdb, request,
                   reply, nrequests, crashed, conns, nclients>>

Next ==
    \/ \E c \in Clients, key \in Keys, val \in Vals, ttl \in TtlVals,
          is_prefix \in BOOLEAN : Put(c, key, val, ttl, is_prefix) /\ SameLoop
    \/ \E c \in Clients, key \in Keys : Get(c, key) /\ SameLoop
    \/ \E c \in Clients, key \in Keys, ttl \in TtlVals : Ttl(c, key, ttl) /\ SameLoop
    \/ \E c \in Clients, key \in Keys, is_prefix \in BOOLEAN : Del(c, key, is_prefix) /\ SameLoop
    \/ \E c \in Clients : Flush(c) /\ SameLoop
    \/ \E c \in Clients, key \in Keys, is_prefix \in BOOLEAN : Inc(c, key, is_prefix) /\ SameLoop
    \/ \E c \in Clients, key \in Keys, is_prefix \in BOOLEAN : Dec(c, key, is_prefix) /\ SameLoop
    \/ \E c \in Clients, key \in Keys, nokey \in BOOLEAN : Count(c, key, nokey) /\ SameLoop
    \/ \E c \in Clients, key \in Keys : KeysCmd(c, key) /\ SameLoop
    \/ \E c \in Clients, name \in DbNames : Use(c, name) /\ SameLoop
    \/ Sweep /\ SameLoop
    \/ Tick /\ SameLoop

Spec == Init /\ [][Next]_vars

\* The keys the clients of the sweep specification use: the empty key and
\* the keys of one byte
SweepKeys == {key \in Keys : Len(key) <= 1}

\* The point commands that set and remove TTLs on the database every client
\* starts with, the sweep and the clock; no client reads a key
SweepNext ==
    \/ \E c \in Clients, key \in SweepKeys, val \in Vals, ttl \in TtlVals :
          Put(c, key, val, ttl, FALSE) /\ SameLoop
    \/ \E c \in Clients, key \in SweepKeys, ttl \in TtlVals : Ttl(c, key, ttl) /\ SameLoop
    \/ \E c \in Clients, key \in SweepKeys : Del(c, key, FALSE) /\ SameLoop
    \/ Sweep /\ SameLoop
    \/ Tick /\ SameLoop

\* The keys of the sweep have no byte whose order depends on the signedness
\* of char mattering to expire_keys: one signedness stands for both
SweepInit == Init /\ charSigned = TRUE

\* The timer of expire_keys keeps firing: run_server calls expire_keys on
\* every expiration of exptimerfd
SweepLive == SweepInit /\ [][SweepNext]_vars /\ WF_vars(Sweep /\ SameLoop)

---------------------------------------------------------------------------
(* src/src/server.c: the life of a connection under run_server *)

\* Unread packets one connection may have queued in its socket
MaxInbuf == 2

\* A packet on the wire: the opcode of its header and the command it carries
Pkt(op, key, ttl, is_prefix, nokey, name) ==
    [op |-> op, key |-> key, ttl |-> ttl, is_prefix |-> is_prefix,
     nokey |-> nokey, name |-> name]

\* The packets clients send: one of each opcode on key "a", a flush, a USE of
\* each name, a packet whose first byte is no opcode of commands_map (UNKNOWN)
\* and a packet of a known opcode whose header declares a total length above
\* max_request_size (OVERSIZE)
Packets ==
    {Pkt(op, <<97>>, 0, FALSE, FALSE, "") :
        op \in {"PUT", "GET", "DEL", "INC", "DEC", "COUNT"}}
    \cup {Pkt("TTL", <<97>>, 1, FALSE, FALSE, ""),
          Pkt("KEYS", <<97>>, 0, TRUE, FALSE, ""),
          Pkt("DEL", <<>>, 0, FALSE, TRUE, "")}
    \cup {Pkt("USE", <<>>, 0, FALSE, FALSE, n) : n \in DbNames}
    \cup {Pkt(op, <<>>, 0, FALSE, TRUE, "") :
            op \in {"PING", "DB", "INFO", "QUIT", "UNKNOWN", "OVERSIZE"}}

\* The end of the stream: the peer has closed and recv returns 0
EofMark == Pkt("EOF", <<>>, 0, FALSE, TRUE, "")

\* The peer has sent fewer than HEADLEN bytes and closed: recvbytes returns
\* their number, and 0 on every later call
PartialEofMark == Pkt("PARTIAL_EOF", <<>>, 0, FALSE, TRUE, "")

\* The connection was reset before a byte arrived: recvbytes returns a
\* negative value on the first read
RecvErrorMark == Pkt("RECV_ERROR", <<>>, 0, FALSE, TRUE, "")

\* The ways a stream ends
EndMarks == {EofMark, PartialEofMark, RecvErrorMark}

\* What the six bytes recv_packet pops from an empty ring buffer into
\* uninitialized memory may read as: a header of no opcode, a header that
\* declares too long a packet, or the whole of a packet that has no body
GarbageHeaders ==
    {Pkt(op, <<>>, 0, FALSE, TRUE, "") :
        op \in {"UNKNOWN", "OVERSIZE", "PING", "DB", "INFO", "QUIT"}}

\* The bytes of a database name
NameBytes(name) == IF name = "db0" THEN <<100, 98, 48>> ELSE <<100, 98, 49>>

ping_handler(c) == {Out(dbs, expiring_keys, keyspace_size, AckReply(OK))}

db_handler(c) ==
    {Out(dbs, expiring_keys, keyspace_size, DataReply(NameBytes(cdb[c])))}

\* Sets no reply (NoReply) and returns OK
info_handler(c) == {Out(dbs, expiring_keys, keyspace_size, NoReply)}

\* commands_map: the outcomes of the handler of the packet's opcode
commands_map(c, pkt) ==
    CASE pkt.op = "PUT"   -> put_handler(c, pkt.key, <<48>>, pkt.ttl, pkt.is_prefix)
      [] pkt.op = "GET"   -> get_handler(c, pkt.key)
      [] pkt.op = "DEL"   -> del_handler(c, pkt.key, pkt.is_prefix, pkt.nokey)
      [] pkt.op = "TTL"   -> ttl_handler(c, pkt.key, pkt.ttl)
      [] pkt.op = "INC"   -> inc_handler(c, pkt.key, pkt.is_prefix)
      [] pkt.op = "DEC"   -> dec_handler(c, pkt.key, pkt.is_prefix)
      [] pkt.op = "COUNT" -> count_handler(c, pkt.key, pkt.nokey)
      [] pkt.op = "KEYS"  -> keys_handler(c, pkt.key)
      [] pkt.op = "USE"   -> use_handler(c, pkt.name)
      [] pkt.op = "PING"  -> ping_handler(c)
      [] pkt.op = "DB"    -> db_handler(c)
      [] pkt.op = "INFO"  -> info_handler(c)

\* mod_epoll(epollfd, fd, ev, client): the one event the socket is armed for;
\* a delivered event disarms it until the next mod_epoll
mod_epoll(client, ev) == [client EXCEPT !.events = ev]

\* The packets sent and not yet read, over all connections
RECURSIVE Unread(_)
Unread(S) ==
    IF S = {} THEN 0
    ELSE LET c == CHOOSE x \in S : TRUE
         IN  Len(conns[c].inbuf) + Unread(S \ {c})

\* start_server has run and no client has connected.  The keys of Packets
\* have no byte above 127, so one signedness of char stands for both; request,
\* reply and event record nothing under ConnSpec, where the reply a handler
\* sets is kept in the struct client.
ConnInit ==
    /\ charSigned = TRUE
    /\ now = 0
    /\ dbs = ("db0" :> trie_create)
    /\ expiring_keys = <<>>
    /\ keyspace_size = 0
    /\ cdb = [c \in Clients |-> "none"]
    /\ request = NoRequest
    /\ reply = NoReply
    /\ nrequests = 0
    /\ event = "start"
    /\ crashed = FALSE
    /\ conns = [c \in Clients |-> no_client]
    /\ nclients = 0
    /\ recv = NoRecv
    /\ LoopInit

\* A connection arrives on the listening socket
accept_handler(c) ==
    /\ ~crashed
    /\ conns[c] = no_client
    /\ conns' = [conns EXCEPT ![c] = accepted_client]
    /\ cdb' = [cdb EXCEPT ![c] = "db0"]
    /\ nclients' = nclients + 1
    /\ UNCHANGED <<charSigned, now, dbs, expiring_keys, keyspace_size, request,
                   reply, nrequests, event, crashed>>

\* The peer writes a packet
Send(c, pkt) ==
    /\ ~crashed
    /\ conns[c].sock = "open"
    /\ Len(conns[c].inbuf) < MaxInbuf
    /\ \A i \in 1..Len(conns[c].inbuf) : conns[c].inbuf[i] \notin EndMarks
    /\ nrequests + Unread(Clients) < MaxRequests
    /\ conns' = [conns EXCEPT ![c].inbuf = Append(@, pkt)]
    /\ UNCHANGED <<charSigned, now, dbs, expiring_keys, keyspace_size, cdb,
                   request, reply, nrequests, event, crashed, nclients>>

\* The peer closes its end, or the connection is reset.  A stream that ends
\* inside a header or by a reset has nothing unread before the end; a reset
\* may be served as a request, and counts as one against MaxRequests.
stream_ends(c, m) ==
    /\ ~crashed
    /\ conns[c].sock = "open"
    /\ Len(conns[c].inbuf) < MaxInbuf
    /\ \A i \in 1..Len(conns[c].inbuf) : conns[c].inbuf[i] \notin EndMarks
    /\ m # EofMark => conns[c].inbuf = <<>>
    /\ m = RecvErrorMark => nrequests + Unread(Clients) < MaxRequests
    /\ conns' = [conns EXCEPT ![c].inbuf = Append(@, m)]
    /\ UNCHANGED <<charSigned, now, dbs, expiring_keys, keyspace_size, cdb,
                   request, reply, nrequests, event, crashed, nclients>>

ClientClose(c) == \E m \in EndMarks : stream_ends(c, m)

\* errclient with the client left in the clients map: the socket is closed
\* and nothing else is done
errclient_close_only(c) ==
    /\ conns' = [conns EXCEPT ![c] = [@ EXCEPT !.sock = "closed",
                                                !.events = "NONE",
                                                !.inbuf = <<>>]]
    /\ UNCHANGED <<nclients, cdb>>

\* errclient of request_handler: shutdown, close, hashtable_del of the client
\* (which frees it), info.nclients--
errclient(c) ==
    /\ conns' = [conns EXCEPT ![c] = no_client]
    /\ nclients' = nclients - 1
    /\ cdb' = [cdb EXCEPT ![c] = "none"]

\* quit_handler that forgets info.nclients
quit_handler_uncounted(c) ==
    /\ conns' = [conns EXCEPT ![c] = no_client]
    /\ cdb' = [cdb EXCEPT ![c] = "none"]
    /\ UNCHANGED nclients

\* quit_handler: del_epoll, shutdown, close, info.nclients--, hashtable_del
\* of the client (which frees it); sets no reply
quit_handler(c) ==
    /\ conns' = [conns EXCEPT ![c] = no_client]
    /\ nclients' = nclients - 1
    /\ cdb' = [cdb EXCEPT ![c] = "none"]

\* request_handler once recv_packet has the header of pkt
serve_packet(c, pkt) ==
    IF pkt.op = "OVERSIZE"
    THEN \* tlen > max_request_size, rc = -ERRMAXREQSIZE: errclient
         /\ errclient(c)
         /\ UNCHANGED <<dbs, expiring_keys, keyspace_size, nrequests, crashed>>
    ELSE IF pkt.op = "UNKNOWN"
    THEN \* recv_packet closes the socket and returns NULL with rc = 0:
         \* freebuf, reset
         /\ conns' = [conns EXCEPT ![c] =
                         [@ EXCEPT !.sock = "closed",
                                   !.ctx_handler = "request_handler",
                                   !.events = "NONE",
                                   !.inbuf = <<>>]]
         /\ UNCHANGED <<dbs, expiring_keys, keyspace_size, cdb, nrequests,
                        crashed, nclients>>
    ELSE IF pkt.op = "QUIT"
    THEN \* quit_handler returns -1: exit
         /\ quit_handler(c)
         /\ nrequests' = nrequests + 1
         /\ UNCHANGED <<dbs, expiring_keys, keyspace_size, crashed>>
    ELSE \E o \in commands_map(c, pkt) :
         /\ dbs' = o.dbs
         /\ expiring_keys' = o.expiring_keys
         /\ keyspace_size' = o.keyspace_size
         /\ cdb' = o.cdb
         /\ crashed' = o.crashed
         /\ nrequests' = IF o.crashed THEN nrequests ELSE nrequests + 1
         /\ UNCHANGED nclients
         /\ conns' =
              IF o.crashed
              THEN \* the process dies and the kernel closes its sockets
                   [x \in Clients |-> no_client]
              ELSE [conns EXCEPT ![c] =
                      mod_epoll(
                        [@ EXCEPT !.inbuf = Tail(@),
                                  !.reply = IF o.reply = NoReply
                                            THEN @ ELSE o.reply,
                                  !.ctx_handler = "reply_handler"],
                        "EPOLLOUT")]

\* recv_packet never returns: the thread of run_server spins in one of its
\* read loops and serves no further event
recv_packet_spins ==
    /\ crashed' = TRUE
    /\ UNCHANGED <<dbs, expiring_keys, keyspace_size, cdb, nrequests, conns,
                   nclients>>

\* EPOLLIN on a client whose ctx_handler is request_handler: recv_packet, the
\* handler of the opcode, then the arming of the socket
request_handler(c) ==
    /\ ~crashed
    /\ conns[c].sock = "open"
    /\ conns[c].ctx_handler = "request_handler"
    /\ conns[c].events = "EPOLLIN"
    /\ conns[c].inbuf # <<>>
    /\ UNCHANGED <<charSigned, now, request, reply, event>>
    /\ LET pkt == Head(conns[c].inbuf)
       IN  CASE pkt.op = "EOF" ->
                  \* n = 0 after the first read, rc = -ERRCLIENTDC: errclient
                  /\ errclient(c)
                  /\ UNCHANGED <<dbs, expiring_keys, keyspace_size, nrequests,
                                 crashed>>
             [] pkt.op = "PARTIAL_EOF" ->
                  \* 0 < n < HEADLEN and every further read adds 0
                  recv_packet_spins
             [] pkt.op = "RECV_ERROR" ->
                  \* the size_t n wraps to a value above HEADLEN; the header is
                  \* popped from an empty ring buffer
                  \/ \E g \in GarbageHeaders : serve_packet(c, g)
                  \/ recv_packet_spins
             [] OTHER -> serve_packet(c, pkt)

\* The reply_handler that re-arms the socket for read whether or not a reply
\* was written
reply_handler_rearm(c) ==
    /\ ~crashed
    /\ conns[c].sock = "open"
    /\ conns[c].ctx_handler = "reply_handler"
    /\ conns[c].events = "EPOLLOUT"
    /\ conns' = [conns EXCEPT ![c] =
                    mod_epoll([@ EXCEPT !.ctx_handler = "request_handler"],
                              "EPOLLIN")]
    /\ UNCHANGED <<charSigned, now, dbs, expiring_keys, keyspace_size, cdb,
                   request, reply, nrequests, event, crashed, nclients>>

\* reply_handler when sendall returns sent (negative: the write has failed).
\* The failure sets ret, which run_server discards; the reply is freed and
\* the socket armed for read either way.
write_reply(c, sent) ==
    /\ ~crashed
    /\ conns[c].sock = "open"
    /\ conns[c].ctx_handler = "reply_handler"
    /\ conns[c].events = "EPOLLOUT"
    /\ sent < 0 => conns[c].reply # NoReply
    /\ conns' = [conns EXCEPT ![c] =
                    IF @.reply = NoReply
                    THEN \* if (!client->reply) return: nothing is armed
                         [@ EXCEPT !.events = "NONE"]
                    ELSE \* sendall, free_reply, back to request_handler
                         mod_epoll([@ EXCEPT !.reply = NoReply,
                                             !.ctx_handler = "request_handler"],
                                   "EPOLLIN")]
    /\ UNCHANGED <<charSigned, now, dbs, expiring_keys, keyspace_size, cdb,
                   request, reply, nrequests, event, crashed, nclients>>

\* EPOLLOUT on a client whose ctx_handler is reply_handler
reply_handler(c) == \E sent \in {0, -1} : write_reply(c, sent)

ConnNext ==
    \/ \E c \in Clients : accept_handler(c) /\ SameLoop
    \/ \E c \in Clients, pkt \in Packets : Send(c, pkt) /\ SameLoop
    \/ \E c \in Clients : ClientClose(c) /\ SameLoop
    \/ \E c \in Clients : request_handler(c) /\ SameLoop
    \/ \E c \in Clients : reply_handler(c) /\ SameLoop

ConnSpec == ConnInit /\ [][ConnNext]_vars

\* run_server serves every descriptor epoll reports ready
ConnLive ==
    /\ ConnSpec
    /\ \A c \in Clients :
         /\ WF_vars(request_handler(c) /\ SameLoop)
         /\ WF_vars(reply_handler(c) /\ SameLoop)

---------------------------------------------------------------------------
(* src/src/server.c: recv_packet once the six bytes of the header are read *)

\* The longest body a packet of the model declares
MaxBody == 3

\* (2 * sizeof(uint8_t)) + sizeof(uint32_t)
HEADLEN == 6

\* conf->max_request_size, which is also the capacity of the ring buffer
max_request_size == HEADLEN + MaxBody

\* A uint32_t as its two 16-bit halves <<high, low>>, which keeps the
\* arithmetic modulo 2^32 within the integers of the model checker
Half == 65536

U32(n) == <<(n \div Half) % Half, n % Half>>

\* u - n as a uint32_t, for 0 <= n < 2^16: the borrow wraps below zero
U32Minus(u, n) ==
    IF u[2] >= n THEN <<u[1], u[2] - n>>
    ELSE <<(u[1] - 1) % Half, u[2] - n + Half>>

\* n < u, for 0 <= n < 2^16
LessU32(n, u) == u[1] > 0 \/ n < u[2]

\* The rest of the state while one call of recv_packet is followed
RecvRest ==
    UNCHANGED <<charSigned, now, dbs, expiring_keys, keyspace_size, cdb,
                request, reply, nrequests, event, crashed, conns, nclients,
                loopvars>>

\* The header of a known opcode has been popped: it declares tlen bytes in
\* all; size bytes of the body are in the ring buffer from the first read
\* and the peer has peer more bytes to send
RecvInit ==
    /\ charSigned = TRUE
    /\ now = 0
    /\ dbs = ("db0" :> trie_create)
    /\ expiring_keys = <<>>
    /\ keyspace_size = 0
    /\ cdb = [c \in Clients |-> "db0"]
    /\ request = NoRequest
    /\ reply = NoReply
    /\ nrequests = 0
    /\ event = "start"
    /\ crashed = FALSE
    /\ conns = [c \in Clients |-> accepted_client]
    /\ nclients = Cardinality(Clients)
    /\ LoopInit
    /\ recv \in [pc : {"tlen"}, declared : 0..(max_request_size + 1),
                 tlen : {U32(0)}, size : 0..MaxBody, peer : 0..MaxBody,
                 copied : {0}]

\* uint32_t tlen = ntohl(...); if (tlen > conf->max_request_size) goto err
read_tlen ==
    /\ recv.pc = "tlen"
    /\ recv' = [recv EXCEPT !.tlen = U32(recv.declared),
                           !.pc = IF recv.declared > max_request_size
                                  THEN "err" ELSE "wait"]
    /\ RecvRest

\* One turn of while (ringbuf_size(rbuf) < tlen - HEADLEN) in which
\* recvbytes reads n bytes; a turn in which it reads none changes nothing
recv_body ==
    /\ recv.pc = "wait"
    /\ LessU32(recv.size, U32Minus(recv.tlen, HEADLEN))
    /\ \E n \in 1..recv.peer :
          /\ LessU32(n - 1, U32Minus(recv.tlen, HEADLEN))
          /\ recv.size + n <= max_request_size
          /\ recv' = [recv EXCEPT !.size = @ + n, !.peer = @ - n]
    /\ RecvRest

\* The loop ends: buffer_init(tlen) and the memcpy of the header
recv_complete ==
    /\ recv.pc = "wait"
    /\ ~LessU32(recv.size, U32Minus(recv.tlen, HEADLEN))
    /\ recv' = [recv EXCEPT !.pc = "copy"]
    /\ RecvRest

\* One turn of while ((tlen - HEADLEN) > 0) { ringbuf_pop; --tlen; }
copy_byte ==
    /\ recv.pc = "copy"
    /\ LessU32(0, U32Minus(recv.tlen, HEADLEN))
    /\ recv' = [recv EXCEPT !.size = @ - 1, !.copied = @ + 1,
                           !.tlen = U32Minus(@, 1)]
    /\ RecvRest

\* The copy loop ends: recv_packet returns the buffer
recv_return ==
    /\ recv.pc = "copy"
    /\ ~LessU32(0, U32Minus(recv.tlen, HEADLEN))
    /\ recv' = [recv EXCEPT !.pc = "done"]
    /\ RecvRest

RecvNext ==
    \/ read_tlen
    \/ recv_body
    \/ recv_complete
    \/ copy_byte
    \/ recv_return

RecvSpec == RecvInit /\ [][RecvNext]_vars

---------------------------------------------------------------------------
(* src/src/server.c: the loop of run_server and the end of start_server *)

\* The packets the clients of the loop specification send
LoopPackets ==
    {Pkt("PUT", <<97>>, 0, FALSE, FALSE, ""),
     Pkt("DEL", <<>>, 0, FALSE, TRUE, "")}

\* The ways their streams end
LoopEnds == {EofMark, PartialEofMark}

\* The descriptors epoll_wait may report: a client socket armed for an
\* event that has come, the timer of expire_keys whenever it has expired,
\* the eventfd for as long as its counter is not zero (it is added level
\* triggered)
ReadyClients ==
    {c \in Clients :
        /\ conns[c].sock = "open"
        /\ \/ conns[c].events = "EPOLLIN" /\ conns[c].inbuf # <<>>
           \/ conns[c].events = "EPOLLOUT"}

\* The orders in which epoll_wait may report the descriptors of S
Batches(S) ==
    {q \in UNION {[1..n -> S] : n \in {Cardinality(S)}} :
        \A i, j \in 1..Len(q) : i # j => q[i] # q[j]}

\* The rest of the state when a step only moves the thread of run_server
LoopRest ==
    UNCHANGED <<charSigned, now, dbs, expiring_keys, keyspace_size, cdb,
                request, reply, nrequests, event, crashed, conns, nclients,
                recv>>

\* SIGINT or SIGTERM: eventfd_write(conf->run, 1)
sigint_handler ==
    /\ loop # "released"
    /\ run = 0
    /\ run' = 1
    /\ UNCHANGED <<loop, evs, active>>
    /\ LoopRest

\* epoll_wait returns the ready descriptors, in an order of its own
epoll_wait ==
    /\ ~crashed
    /\ loop = "epoll_wait"
    /\ \E timer \in SUBSET {"timer"} :
          LET ready == ReadyClients \cup timer
                       \cup (IF run > 0 THEN {"run"} ELSE {})
          IN  /\ ready # {}
              /\ evs' \in Batches(ready)
    /\ loop' = "dispatch"
    /\ UNCHANGED <<run, active>>
    /\ LoopRest

\* The for loop has gone through the events: back to epoll_wait
batch_done ==
    /\ ~crashed
    /\ loop = "dispatch"
    /\ evs = <<>>
    /\ loop' = "epoll_wait"
    /\ UNCHANGED <<run, evs, active>>
    /\ LoopRest

\* The event is the one of conf->run: eventfd_read, goto exit, tfree(evs)
stop_observed ==
    /\ ~crashed
    /\ loop = "dispatch"
    /\ evs # <<>>
    /\ Head(evs) = "run"
    /\ run' = 0
    /\ loop' = "exit"
    /\ evs' = <<>>
    /\ UNCHANGED active
    /\ LoopRest

\* A loop that hands the callback to another thread and goes on
dispatch_async ==
    /\ ~crashed
    /\ loop = "dispatch"
    /\ evs # <<>>
    /\ Head(evs) # "run"
    /\ active' = active \cup {Head(evs)}
    /\ evs' = Tail(evs)
    /\ UNCHANGED <<run, loop>>
    /\ LoopRest

\* The event is the timer's or a client's: run_server calls expire_keys or
\* the ctx_handler of the client, and goes on when the call returns
dispatch ==
    /\ ~crashed
    /\ loop = "dispatch"
    /\ evs # <<>>
    /\ Head(evs) # "run"
    /\ active' = active \cup {Head(evs)}
    /\ evs' = Tail(evs)
    /\ loop' = "in_call"
    /\ UNCHANGED run
    /\ LoopRest

\* The callback x runs and returns to the loop, unless it faults or spins
callback(x) ==
    /\ x \in active
    /\ IF x = "timer" THEN Sweep
       ELSE request_handler(x) \/ reply_handler(x)
    /\ IF crashed' THEN UNCHANGED <<active, loop>>
       ELSE active' = active \ {x} /\ loop' = "dispatch"
    /\ UNCHANGED <<run, evs, recv>>

\* cleanup of start_server: the tables of clients, nodes, transactions and
\* databases and the TTL index are released.  trie_release of a trie whose
\* root a flush has freed frees it again.
cleanup ==
    /\ ~crashed
    /\ loop = "exit"
    /\ \/ /\ conns' = [c \in Clients |-> no_client]
          /\ cdb' = [c \in Clients |-> "none"]
          /\ dbs' = [d \in {} |-> trie_create]
          /\ expiring_keys' = <<>>
          /\ loop' = "released"
          /\ UNCHANGED crashed
       \/ /\ \E d \in DOMAIN dbs : dbs[d].freed
          /\ crashed' = TRUE
          /\ UNCHANGED <<conns, cdb, dbs, expiring_keys, loop>>
    /\ UNCHANGED <<charSigned, now, keyspace_size, request, reply, nrequests,
                   event, nclients, recv, run, evs, active>>

LoopNext ==
    \/ \E c \in Clients, pkt \in LoopPackets : Send(c, pkt) /\ SameLoop
    \/ \E c \in Clients, m \in LoopEnds : stream_ends(c, m) /\ SameLoop
    \/ sigint_handler
    \/ epoll_wait
    \/ batch_done
    \/ stop_observed
    \/ dispatch
    \/ \E x \in Clients \cup {"timer"} : callback(x)
    \/ cleanup

\* The clients are connected and run_server enters its loop
LoopSpecInit == Init /\ charSigned = TRUE

LoopSpec == LoopSpecInit /\ [][LoopNext]_vars

\* The steps of the one thread that runs start_server and run_server
ServerThread ==
    \/ epoll_wait
    \/ batch_done
    \/ stop_observed
    \/ dispatch
    \/ \E x \in Clients \cup {"timer"} : callback(x)
    \/ cleanup

\* The thread is never descheduled for ever
LoopLive == LoopSpec /\ WF_vars(ServerThread)

---------------------------------------------------------------------------
(* The claims of the specification *)

\* The replies a handler may set; NoReply stands for the process dying
\* before it replies
Replies(outs) == {o.reply : o \in outs}

\* The item stored at key in database d, <<>> if none
ItemAt(d, key) ==
    IF d \in DOMAIN dbs /\ Stored(dbs[d], key) THEN dbs[d].nodes[key].ndata ELSE <<>>

\* The keys stored in database d
StoredKeys(d) == {k \in DOMAIN dbs[d].nodes : dbs[d].nodes[k].ndata # <<>>}

IsRequest(op) == event = "request" /\ request.op = op

\* C1: in any reachable state a point PUT of k with v and no TTL is handled,
\* leaves at k an item whose ttl is the sentinel -NOTTL, and a point GET of k
\* sent next on the same connection replies v.
C1_RoundTrip ==
    [][(IsRequest("PUT") /\ ~request.is_prefix)' =>
         \A c \in Clients, k \in Keys, v \in Vals :
            Put(c, k, v, 0, FALSE) =>
                /\ ~crashed'
                /\ (ItemAt(cdb[c], k) # <<>>)'
                /\ (ItemAt(cdb[c], k)[1].ttl = -NOTTL)'
                /\ (Replies(get_handler(c, k)) = {DataReply(v)})']_vars

\* C2: in every state the server is in, the size field of each database's
\* trie equals the number of nodes of that trie that bear an item.
C2_SizeIsItemCount ==
    \A d \in DOMAIN dbs : dbs[d].size = Cardinality(StoredKeys(d))

\* C2 witness: a prefix delete has just taken the last two items out of a trie
\* and left one of its nodes in place
C2_Witness_PrefixDelete ==
    /\ IsRequest("DEL") /\ request.is_prefix
    /\ nrequests = 3 /\ keyspace_size = 0
    /\ dbs["db0"].size = 0
    /\ Cardinality(DOMAIN dbs["db0"].nodes) > 1

\* The step is a request that writes key k of database d: a point PUT, TTL,
\* DEL, INC or DEC of k, one of these on a prefix of k, or a flush of d
WritesKey(d, k) ==
    \E c \in Clients :
        /\ cdb[c] = d
        /\ \/ \E v \in Vals, t \in TtlVals : Put(c, k, v, t, FALSE)
           \/ \E t \in TtlVals : Ttl(c, k, t)
           \/ Del(c, k, FALSE) \/ Inc(c, k, FALSE) \/ Dec(c, k, FALSE)
           \/ Flush(c)
           \/ \E p \in Keys :
                /\ IsPrefix(p, k)
                /\ \/ \E v \in Vals, t \in TtlVals : Put(c, p, v, t, TRUE)
                   \/ Del(c, p, TRUE) \/ Inc(c, p, TRUE) \/ Dec(c, p, TRUE)

\* C3: an item with ttl = T > 0 and creation time ctime keeps both, or is
\* removed, in every step that does not write its key; a key that is absent
\* stays absent until a point PUT of it; and a point GET of a key that is
\* absent, or whose item has reached ctime + T, replies ACK(NOK).  So every
\* GET at a time >= ctime + T of a key put with TTL T and not written since
\* replies ACK(NOK), whatever sweeps and requests on other keys come between.
C3_TtlMonotoneExpiry ==
    [][/\ dbs' # dbs => \A d \in DOMAIN dbs, k \in Keys :
            LET it == ItemAt(d, k)
            IN  /\ (it # <<>> /\ it[1].ttl > 0) =>
                      \/ ItemAt(d, k)' = <<>>
                      \/ /\ ItemAt(d, k)'[1].ttl = it[1].ttl
                         /\ ItemAt(d, k)'[1].ctime = it[1].ctime
                      \/ WritesKey(d, k)
                /\ (it = <<>> /\ ItemAt(d, k)' # <<>>) =>
                      \E c \in Clients, v \in Vals, t \in TtlVals :
                          cdb[c] = d /\ Put(c, k, v, t, FALSE)
       /\ (IsRequest("GET"))' =>
            \A c \in Clients, k \in Keys :
                LET it == ItemAt(cdb[c], k)
                IN  (/\ Get(c, k)
                     /\ ~dbs[cdb[c]].freed
                     /\ \/ it = <<>>
                        \/ it[1].ttl > 0 /\ now >= it[1].ctime + it[1].ttl)
                    => (~crashed' /\ reply' = AckReply(NOK))]_vars

\* C3 witness: the second request was a GET, a second after the first put
\* the key with a TTL of one second; it replied NOK and took the item out,
\* the sweep not having run
C3_Witness_LazyExpiry ==
    /\ IsRequest("GET") /\ reply = AckReply(NOK)
    /\ nrequests = 2 /\ now = 1 /\ keyspace_size = 0
    /\ Len(expiring_keys) = 1
    /\ ~expiring_keys[1].nd_valid

\* C4: a point GET of a key whose item has ttl # -NOTTL and
\* ctime + ttl - now <= 0 replies ACK(NOK), removes the item, takes one off
\* the size of the database, and a CNT of the key sent next counts one less.
C4_LazyExpiryOnGet ==
    [][(IsRequest("GET"))' =>
         \A c \in Clients, k \in Keys :
            LET d == cdb[c]
                it == ItemAt(d, k)
                before == trie_prefix_count(dbs[d], k)
            IN  (/\ Get(c, k)
                 /\ it # <<>>
                 /\ it[1].ttl # -NOTTL
                 /\ (it[1].ctime + it[1].ttl) - now <= 0)
                => /\ reply' = AckReply(NOK)
                   /\ ItemAt(d, k)' = <<>>
                   /\ dbs'[d].size = dbs[d].size - 1
                   /\ (Replies(count_handler(c, k, FALSE)))'
                         = {CountReply(before - 1)}]_vars

\* a < b in the lexicographic order of byte strings, bytes compared as
\* unsigned values and a key before its extensions
RECURSIVE ByteLexLess(_, _)
ByteLexLess(a, b) ==
    IF b = <<>> THEN FALSE
    ELSE IF a = <<>> THEN TRUE
    ELSE IF Head(a) # Head(b) THEN Head(a) < Head(b)
    ELSE ByteLexLess(Tail(a), Tail(b))

\* C5: for every content of a trie and every prefix p, the enumeration of p
\* lists exactly the stored keys that start with p, each once, in ascending
\* byte-lexicographic order.
C5_OrderedEnumeration ==
    \A d \in DOMAIN dbs : ~dbs[d].freed =>
        \A p \in Keys :
            LET ks == trie_prefix_find(dbs[d], p).keys
            IN  /\ {ks[i] : i \in 1..Len(ks)}
                      = {k \in StoredKeys(d) : IsPrefix(p, k)}
                /\ \A i, j \in 1..Len(ks) : i < j => ByteLexLess(ks[i], ks[j])

\* C6: in every state and for every prefix p, the count CNT p replies is the
\* number of keys KEYS p replies.
C6_CountIsEnumerateCount ==
    \A c \in Clients, p \in Keys :
        \A oc \in count_handler(c, p, FALSE), ok \in keys_handler(c, p) :
            (~oc.crashed /\ ~ok.crashed) => oc.reply.val = Len(ok.reply.keys)

\* C6 witness: KEYS has just listed two keys, one of them the prefix itself,
\* and CNT of that prefix replies 2
C6_Witness_TwoKeys ==
    /\ IsRequest("KEYS") /\ Len(reply.keys) = 2
    /\ \E c \in Clients, p \in Keys \ {<<>>} :
          /\ Replies(keys_handler(c, p)) = {reply}
          /\ Replies(count_handler(c, p, FALSE)) = {CountReply(2)}
          /\ reply.keys[1] = p

\* C7: a prefix DEL of p leaves every key with prefix p, p included, absent,
\* every other key with its item unchanged, and the size of the database
\* smaller by the number of keys removed.
C7_PrefixDelete ==
    [][(IsRequest("DEL") /\ request.is_prefix)' =>
         \A c \in Clients, p \in Keys :
            LET d == cdb[c]
                removed == {k \in StoredKeys(d) : IsPrefix(p, k)}
            IN  (Del(c, p, TRUE) /\ ~dbs[d].freed)
                => /\ \A k \in Keys :
                        ItemAt(d, k)' = IF IsPrefix(p, k) THEN <<>>
                                        ELSE ItemAt(d, k)
                   /\ dbs'[d].size = dbs[d].size - Cardinality(removed)]_vars

\* C8: a prefix PUT of p with v and ttl is handled and replies ACK(OK); it
\* leaves the set of stored keys and the size of the database as they were,
\* gives the items stored at or below p the data v and the ttl sent, and
\* leaves every other item untouched; on an empty database a GET of a key
\* under p sent next replies ACK(NOK).
C8_PrefixSetCreatesNothing ==
    [][(IsRequest("PUT") /\ request.is_prefix)' =>
         \A c \in Clients, p \in Keys, v \in Vals, t \in TtlVals :
            LET d == cdb[c]
            IN  Put(c, p, v, t, TRUE)
                => /\ ~crashed'
                   /\ reply' = AckReply(OK)
                   /\ StoredKeys(d)' = StoredKeys(d)
                   /\ dbs'[d].size = dbs[d].size
                   /\ \A k \in StoredKeys(d) :
                        IF IsPrefix(p, k)
                        THEN /\ ItemAt(d, k)'[1].data = v
                             /\ ItemAt(d, k)'[1].ttl = IF t # 0 THEN t ELSE -NOTTL
                        ELSE ItemAt(d, k)' = ItemAt(d, k)
                   /\ dbs[d].size = 0 =>
                        \A k \in Keys :
                            IsPrefix(p, k) =>
                                (Replies(get_handler(c, k)))' = {AckReply(NOK)}]_vars

\* C9: a point DEL of k is handled, and the same DEL sent next replies
\* ACK(NOK) and leaves the size of the database as the first left it.
C9_IdempotentDelete ==
    [][(IsRequest("DEL") /\ ~request.is_prefix /\ ~request.nokey)' =>
         \A c \in Clients, k \in Keys :
            Del(c, k, FALSE)
            => /\ ~crashed'
               /\ (\A o \in del_handler(c, k, FALSE, FALSE) :
                      /\ ~o.crashed
                      /\ o.reply = AckReply(NOK)
                      /\ o.dbs[cdb[c]].size = dbs[cdb[c]].size)']_vars

\* C10: a point DEL of k replies ACK(OK) when k is stored and ACK(NOK) when
\* it is not; afterwards k is absent and every other key has the item it had.
C10_PointDeleteOneKey ==
    [][(IsRequest("DEL") /\ ~request.is_prefix /\ ~request.nokey)' =>
         \A c \in Clients, k \in Keys :
            LET d == cdb[c]
            IN  (Del(c, k, FALSE) /\ ~dbs[d].freed)
                => /\ reply' = AckReply(IF ItemAt(d, k) # <<>> THEN OK ELSE NOK)
                   /\ \A k2 \in Keys :
                        ItemAt(d, k2)' = IF k2 = k THEN <<>> ELSE ItemAt(d, k2)]_vars

\* The data an insert may carry: more than the requests of Next send, so that
\* a replacement changes the data
InsertVals == {<<48>>, <<49>>, <<97>>, <<>>}

\* C11: on every trie the server reaches, insert(k, v) on a key that bears an
\* item leaves the size unchanged and on a key that bears none increases it by
\* exactly one; either way the item of k then has data v, ttl NO_TTL and
\* ctime = latime = now.
C11_InsertReplacesInPlace ==
    \A d \in DOMAIN dbs :
        ~dbs[d].freed =>
            \A k \in Keys, v \in InsertVals :
                LET T  == dbs[d]
                    T1 == trie_insert(T, k, v, now)
                IN  /\ T1.size = IF Stored(T, k) THEN T.size ELSE T.size + 1
                    /\ Stored(T1, k)
                    /\ T1.nodes[k].ndata
                         = <<[data |-> v, ttl |-> -NOTTL, ctime |-> now, latime |-> now]>>

\* Two point PUTs have been served, the second one second after the first and
\* on the key of the first: one item, re-stamped
C11_Witness_Overwrite ==
    /\ IsRequest("PUT") /\ ~request.is_prefix
    /\ nrequests = 2 /\ keyspace_size = 2
    /\ DOMAIN dbs = {"db0"} /\ ~dbs["db0"].freed /\ dbs["db0"].size = 1
    /\ now = 1
    /\ \E k \in Keys :
          /\ ItemAt("db0", k) # <<>>
          /\ ItemAt("db0", k)[1].ctime = 1
          /\ ItemAt("db0", k)[1].ttl = -NOTTL

\* The decimal text of a signed integer: an optional minus sign, then digits
IsDecimalText(s) ==
    \/ Len(s) >= 1 /\ \A i \in 1..Len(s) : isdigit(s[i])
    \/ Len(s) >= 2 /\ s[1] = 45 /\ \A i \in 2..Len(s) : isdigit(s[i])

\* The integer a decimal text denotes
DecimalValue(s) ==
    IF s[1] = 45 THEN -parse_int(SubSeq(s, 2, Len(s))) ELSE parse_int(s)

\* The decimal text of the integer n
DecimalText(n) == IF n < 0 THEN <<45>> \o digits(-n) ELSE digits(n)

\* C12: a prefix INC (DEC) on prefix p replaces the data of every item at or
\* below p that is the decimal text of a signed integer n, negative n
\* included, by the text of n + 1 (n - 1), and leaves every other item of the
\* database, non-integer or outside the prefix, unchanged.
C12_PrefixIncDec ==
    [][(event = "request" /\ request.op \in {"INC", "DEC"} /\ request.is_prefix)' =>
         \A c \in Clients, p \in Keys, inc \in BOOLEAN :
            LET d == cdb[c]
            IN  ((IF inc THEN Inc(c, p, TRUE) ELSE Dec(c, p, TRUE)) /\ ~dbs[d].freed)
                => \A k \in Keys :
                     LET old == ItemAt(d, k)
                     IN  IF old # <<>> /\ IsPrefix(p, k) /\ IsDecimalText(old[1].data)
                         THEN /\ ItemAt(d, k)' # <<>>
                              /\ (ItemAt(d, k)')[1].data
                                   = DecimalText(DecimalValue(old[1].data)
                                                 + (IF inc THEN 1 ELSE -1))
                         ELSE ItemAt(d, k)' = old]_vars

\* C13: a point INC (DEC) on key k replies ACK(OK) and replaces the value by
\* the decimal text of its successor (predecessor) when k is stored with
\* integer data; it replies ACK(NOK) and leaves the trie unchanged when k is
\* absent or its data is not an integer.
C13_PointIncDec ==
    [][(event = "request" /\ request.op \in {"INC", "DEC"} /\ ~request.is_prefix)' =>
         \A c \in Clients, k \in Keys, inc \in BOOLEAN :
            LET d   == cdb[c]
                old == ItemAt(d, k)
            IN  ((IF inc THEN Inc(c, k, FALSE) ELSE Dec(c, k, FALSE)) /\ ~dbs[d].freed)
                => IF old # <<>> /\ IsDecimalText(old[1].data)
                   THEN /\ reply' = AckReply(OK)
                        /\ ItemAt(d, k)' # <<>>
                        /\ (ItemAt(d, k)')[1].data
                             = DecimalText(DecimalValue(old[1].data)
                                           + (IF inc THEN 1 ELSE -1))
                   ELSE /\ reply' = AckReply(NOK)
                        /\ dbs' = dbs]_vars

\* C14: TTL k t on a stored key replies ACK(OK) and sets the item's ttl to t
\* and its ctime and latime to now; TTL on an absent key replies ACK(NOK) and
\* leaves every trie and the TTL index unchanged.
C14_TtlOutcome ==
    [][(IsRequest("TTL"))' =>
         \A c \in Clients, k \in Keys, t \in TtlVals :
            LET d   == cdb[c]
                old == ItemAt(d, k)
            IN  Ttl(c, k, t)
                => IF old # <<>>
                   THEN /\ reply' = AckReply(OK)
                        /\ ItemAt(d, k)'
                             = <<[old[1] EXCEPT !.ttl = t, !.ctime = now, !.latime = now]>>
                   ELSE /\ reply' = AckReply(NOK)
                        /\ dbs' = dbs
                        /\ expiring_keys' = expiring_keys]_vars

\* C15: on every trie the server reaches and for every prefix p,
\* prefix_count(p) is the number of stored keys that have p as a prefix, p
\* itself included when stored (so 0 when there is none); for the empty prefix,
\* and for the null key of a CNT request, the count is the database size.
C15_PrefixCount ==
    \A d \in DOMAIN dbs :
        ~dbs[d].freed =>
            /\ \A p \in Keys :
                  trie_prefix_count(dbs[d], p)
                    = Cardinality({k \in StoredKeys(d) : IsPrefix(p, k)})
            /\ trie_prefix_count(dbs[d], <<>>) = dbs[d].size
            /\ \A c \in Clients :
                  cdb[c] = d =>
                    Replies(count_handler(c, <<>>, TRUE)) = {CountReply(dbs[d].size)}

\* A CNT of a prefix has just replied 1 on a database of two items: the count
\* left out a stored key that does not have the prefix
C15_Witness_CountUnderPrefix ==
    /\ IsRequest("COUNT") /\ ~request.nokey
    /\ reply = CountReply(1)
    /\ \E c \in Clients, p \in Keys \ {<<>>} :
          /\ ~dbs[cdb[c]].freed /\ dbs[cdb[c]].size = 2
          /\ Replies(count_handler(c, p, FALSE)) = {reply}
          /\ \E k \in StoredKeys(cdb[c]) : ~IsPrefix(p, k)

\* C16: a flush (a DEL carrying no keys) of the selected database replies
\* ACK(OK) and empties its trie in place: the registry keeps the same
\* databases, and the flushed one is left as a fresh database is, with a valid
\* root, size 0 and no key, so that the operations that follow work on it as on
\* a fresh database.
C16_FlushPreservesDatabase ==
    [][(IsRequest("DEL") /\ request.nokey)' =>
         \A c \in Clients :
            Flush(c)
            => /\ reply' = AckReply(OK)
               /\ DOMAIN dbs' = DOMAIN dbs
               /\ cdb' = cdb
               /\ dbs'[cdb[c]] = trie_create
               /\ \A d \in DOMAIN dbs \ {cdb[c]} : dbs'[d] = dbs[d]]_vars

\* C17: a newly accepted connection has db0 selected.  A USE of a name that
\* is not registered registers a database with an empty trie under that name
\* and selects it for the requesting connection; a USE of a registered name
\* selects that database and changes no database.  In both cases the reply is
\* ACK(OK), and no step of one connection changes the selection of another.
C17_DatabaseSelection ==
    [][\A c \in Clients :
         /\ accept_handler(c)
              => /\ cdb'[c] = "db0"
                 /\ "db0" \in DOMAIN dbs
                 /\ dbs' = dbs
                 /\ \A c2 \in Clients \ {c} : cdb'[c2] = cdb[c2]
         /\ (conns[c].inbuf # <<>> /\ Head(conns[c].inbuf).op = "USE"
               /\ request_handler(c))
              => LET name == Head(conns[c].inbuf).name
                 IN  /\ cdb'[c] = name
                     /\ name \in DOMAIN dbs'
                     /\ IF name \in DOMAIN dbs
                        THEN dbs' = dbs
                        ELSE /\ dbs'[name] = trie_create
                             /\ DOMAIN dbs' = DOMAIN dbs \cup {name}
                             /\ \A d \in DOMAIN dbs : dbs'[d] = dbs[d]
                     /\ conns'[c].reply = AckReply(OK)
                     /\ \A c2 \in Clients \ {c} : cdb'[c2] = cdb[c2]]_vars

\* Connection c1 has stored a key in db0 and then selected db1, which its USE
\* created; its ACK(OK) is pending, and c2, still connected, has db0 selected
C17_Witness_UseCreates ==
    /\ conns["c1"].sock = "open" /\ conns["c2"].sock = "open"
    /\ cdb["c1"] = "db1" /\ cdb["c2"] = "db0"
    /\ DOMAIN dbs = {"db0", "db1"}
    /\ dbs["db1"] = trie_create
    /\ Stored(dbs["db0"], <<97>>)
    /\ conns["c1"].ctx_handler = "reply_handler"
    /\ conns["c1"].reply = AckReply(OK)
    /\ nrequests = 2

\* Connection c is armed for the read of a request
ArmedForRead(c) ==
    /\ conns[c].sock = "open"
    /\ conns[c].ctx_handler = "request_handler"
    /\ conns[c].events = "EPOLLIN"

Awaiting(c) ==
    conns[c].sock = "open" /\ conns[c].ctx_handler = "reply_handler"

\* Connection c is closed, or no reply is pending on it and it is armed for
\* the read of its next request
Served(c) ==
    \/ conns[c].sock = "closed"
    \/ /\ conns[c].ctx_handler = "request_handler"
       /\ conns[c].events = "EPOLLIN"
       /\ conns[c].reply = NoReply

\* C19: whatever the opcode of a request packet the server has read on a
\* connection, eventually either its reply is written and the connection is
\* armed for read again, or the connection is closed.
C19_ReplyOrClose ==
    \A c \in Clients : Awaiting(c) ~> Served(c)

\* C20: when the first byte of the packet read on a connection is no known
\* opcode, the connection is dropped and its client unregistered (taken out
\* of the clients map, nclients decremented), and no trie and no TTL-index
\* state changes; so every client in the clients map has an open socket.
C20_UnknownOpcode ==
    [][/\ \A c \in Clients :
            (conns[c].inbuf # <<>> /\ Head(conns[c].inbuf).op = "UNKNOWN"
              /\ request_handler(c))
            => /\ conns'[c].sock = "closed"
               /\ ~conns'[c].registered
               /\ nclients' = nclients - 1
               /\ UNCHANGED <<dbs, expiring_keys, keyspace_size, cdb, nrequests>>
       /\ \A c \in Clients : (conns[c].registered => conns[c].sock = "open")'
      ]_vars

C22_ClientDisconnect ==
    [][\A c \in Clients :
         (conns[c].inbuf # <<>> /\ Head(conns[c].inbuf) \in EndMarks
           /\ request_handler(c))
         => /\ conns'[c].sock = "closed"
            /\ ~conns'[c].registered
            /\ conns'[c].reply = NoReply
            /\ nclients' = nclients - 1
            /\ UNCHANGED <<dbs, expiring_keys, keyspace_size, nrequests,
                           crashed>>]_vars

\* C23: when the write of a reply to a client fails, the connection is
\* dropped (socket closed and client unregistered) and not armed again for
\* the next read.
C23_WriteFailure ==
    [][\A c \in Clients :
         write_reply(c, -1)
         => /\ conns'[c].sock = "closed"
            /\ ~conns'[c].registered
            /\ ~ArmedForRead(c)']_vars

\* C24: the processing of a QUIT request takes the socket of the client out
\* of the event loop and closes it, takes the client out of the clients map,
\* decrements nclients by exactly one and sets no reply; no trie and no
\* TTL-index state changes; and no later event is dispatched to that client:
\* request_handler and reply_handler only ever run on a registered client
\* with an open socket.
C24_Quit ==
    [][\A c \in Clients :
         /\ (conns[c].inbuf # <<>> /\ Head(conns[c].inbuf).op = "QUIT"
               /\ request_handler(c))
            => /\ conns'[c].sock = "closed"
               /\ conns'[c].events = "NONE"
               /\ ~conns'[c].registered
               /\ conns'[c].reply = NoReply
               /\ nclients' = nclients - 1
               /\ \A x \in Clients \ {c} : conns'[x] = conns[x]
               /\ UNCHANGED <<dbs, expiring_keys, keyspace_size, crashed>>
         /\ (request_handler(c) \/ reply_handler(c))
            => conns[c].registered /\ conns[c].sock = "open"
         /\ (~conns[c].registered /\ ~conns'[c].registered)
            => conns'[c] = conns[c]]_vars

\* Two clients are connected, a key is stored under a TTL, and one client is
\* armed for read with a QUIT first in its socket: its next event is the
\* quit_handler
C24_Witness_QuitArrives ==
    \E c \in Clients :
        /\ ~crashed
        /\ ArmedForRead(c)
        /\ conns[c].inbuf # <<>>
        /\ Head(conns[c].inbuf).op = "QUIT"
        /\ dbs["db0"].size = 1
        /\ expiring_keys # <<>>
        /\ nclients = 2

\* C25: in every reachable state every entry of the TTL index refers to an
\* item that is stored under the key of the entry in the trie of the entry
\* (its nd does not dangle): an item that is removed or replaced takes its
\* entry with it, so the sweep never dereferences a freed item.
C25_TtlIndexIntegrity ==
    ~crashed =>
        \A i \in 1..Len(expiring_keys) :
            /\ expiring_keys[i].nd_valid
            /\ Stored(dbs[expiring_keys[i].data_ptr], expiring_keys[i].key)

\* The item stored under key in database d has a TTL
HasTtl(d, key) ==
    ItemAt(d, key) # <<>> /\ ItemAt(d, key)[1].ttl # -NOTTL

\* C26: a point PUT with a TTL or a TTL command on a key that already has a
\* TTL changes it in place and appends no entry to the TTL index; an entry
\* is appended only when the key had no TTL; hence the index never holds two
\* entries that point to the same item of the same (database, key).
C26_TtlIndexUnique ==
    [][/\ \A c \in Clients, key \in Keys, val \in Vals, ttl \in TtlVals :
            ((Put(c, key, val, ttl, FALSE) \/ Ttl(c, key, ttl))
              /\ ~crashed' /\ HasTtl(cdb[c], key))
            => Len(expiring_keys') = Len(expiring_keys)
       /\ (\A i, j \in 1..Len(expiring_keys) :
              (/\ i # j
               /\ expiring_keys[i].nd_valid /\ expiring_keys[j].nd_valid
               /\ expiring_keys[i].data_ptr = expiring_keys[j].data_ptr)
              => expiring_keys[i].key # expiring_keys[j].key)'
      ]_vars

\* The entries of the TTL index whose nd is live are in ascending order of
\* remaining time ctime + ttl - now
SortedByRemaining ==
    \A i, j \in 1..Len(expiring_keys) :
        (i < j /\ expiring_keys[i].nd_valid /\ expiring_keys[j].nd_valid)
        => Remaining(expiring_keys[i], dbs, now)
             <= Remaining(expiring_keys[j], dbs, now)

\* C27: immediately after every point PUT with a TTL and every successful
\* TTL command the TTL index is sorted ascending by remaining time
\* ctime + ttl - now, so that no entry with remaining <= 0 comes after an
\* entry with remaining > 0.
C27_TtlIndexSorted ==
    [][\A c \in Clients, key \in Keys, val \in Vals, ttl \in TtlVals :
         (/\ \/ ttl # 0 /\ Put(c, key, val, ttl, FALSE)
             \/ Ttl(c, key, ttl) /\ reply' = AckReply(OK)
          /\ ~crashed')
         => SortedByRemaining']_vars

\* C28: one run of the sweep over an index whose entries all point to live
\* items that have a TTL, one entry per key and no empty key, removes every due entry (remaining <= 0) that precedes the first
\* entry with remaining > 0: when it returns the index is empty or its
\* first entry has remaining > 0.
C28_SweepComplete ==
    [][(/\ Sweep
        /\ ~crashed'
        /\ \A i \in 1..Len(expiring_keys) : expiring_keys[i].nd_valid
              /\ expiring_keys[i].key # <<>>
              /\ HasTtl(expiring_keys[i].data_ptr, expiring_keys[i].key)
        /\ \A i, j \in 1..Len(expiring_keys) :
              i # j => expiring_keys[i] # expiring_keys[j])
       => \/ expiring_keys' = <<>>
          \/ ~expiring_keys'[1].nd_valid
          \/ Remaining(expiring_keys'[1], dbs', now') > 0]_vars

\* C29: the sweep deletes from a trie only keys whose current item is
\* expired: never a key whose item has ttl = -NOTTL or whose remaining time
\* ctime + ttl - now is > 0, whatever the history of the key.
C29_SweepOnlyExpired ==
    [][(Sweep /\ ~crashed')
       => \A d \in DOMAIN dbs, key \in Keys :
            (Stored(dbs[d], key) /\ ~Stored(dbs'[d], key))
            => LET nd == ItemAt(d, key)[1]
               IN  nd.ttl # -NOTTL /\ (nd.ctime + nd.ttl) - now <= 0]_vars

\* C30: in every reachable state every stored item whose ttl is not -NOTTL,
\* whether the TTL was set by a point PUT, by the TTL command or by a prefix
\* PUT, is referenced by an entry of the TTL index.
C30_TtlIndexComplete ==
    ~crashed =>
        \A d \in DOMAIN dbs, key \in Keys :
            HasTtl(d, key)
            => \E i \in 1..Len(expiring_keys) :
                 /\ expiring_keys[i].data_ptr = d
                 /\ expiring_keys[i].key = key
                 /\ expiring_keys[i].nd_valid

\* The item stored under key in database d has a TTL that has elapsed
Due(d, key) ==
    /\ ~crashed
    /\ HasTtl(d, key)
    /\ (ItemAt(d, key)[1].ctime + ItemAt(d, key)[1].ttl) - now <= 0

\* Every stored item of db0 that has a TTL is due: no item that is not yet
\* due is waited for
AllDue ==
    \A key \in Keys : HasTtl("db0", key) => Due("db0", key)

\* C31: a key whose TTL was set by a point PUT or a TTL command and has
\* elapsed is eventually removed from its trie when the sweep timer keeps
\* firing, whether or not a client accesses it.  Stated for the moments at
\* which no other item is still waiting for its TTL to elapse; a key that
\* is written again is no longer due.
C31_EventuallySwept ==
    \A key \in SweepKeys :
        (Due("db0", key) /\ AllDue) ~> ~(Due("db0", key) /\ AllDue)

\* C32: after any sequence of insert, point delete and prefix delete no node
\* of a trie other than its root has both no item and no children: delete
\* and prefix_delete prune the node they empty and every ancestor left with
\* no item and no children.
C32_Pruned ==
    \A d \in DOMAIN dbs :
        ~dbs[d].freed
        => \A p \in DOMAIN dbs[d].nodes :
             p # <<>>
             => \/ dbs[d].nodes[p].ndata # <<>>
                \/ dbs[d].nodes[p].children # <<>>

\* C33: in every reachable state the children list of every trie node is
\* strictly increasing by chr, as the code compares it (sorted, no two
\* children with the same chr), and so the short-circuited linear_search
\* finds every child of the list.
C33_SiblingsOrdered ==
    \A d \in DOMAIN dbs :
        ~dbs[d].freed
        => \A p \in DOMAIN dbs[d].nodes :
             LET list == dbs[d].nodes[p].children
             IN  /\ \A i, j \in 1..Len(list) :
                       i < j => CharVal(list[i]) < CharVal(list[j])
                 /\ \A i \in 1..Len(list) : linear_search(list, list[i]) = i

\* A node has two children, the second of them added before the first: the
\* list has been sorted, on a build where the byte 200 is a negative char
C33_Witness_TwoChildren ==
    /\ charSigned
    /\ ~dbs["db0"].freed
    /\ dbs["db0"].nodes[<<>>].children = <<200, 97>>
    /\ Stored(dbs["db0"], <<97>>) /\ Stored(dbs["db0"], <<200>>)
    /\ dbs["db0"].nodes[<<97>>].ndata[1].ctime < dbs["db0"].nodes[<<200>>].ndata[1].ctime

RECURSIVE SumSizes(_)
SumSizes(S) ==
    IF S = {} THEN 0
    ELSE LET d == CHOOSE x \in S : TRUE
         IN  dbs[d].size + SumSizes(S \ {d})

\* C34: in every reachable state of a running server whose tries are all
\* intact, the server-wide counter keyspace_size equals the sum of the sizes
\* of the tries of all databases.
C34_GlobalKeyCounter ==
    (~crashed /\ \A d \in DOMAIN dbs : ~dbs[d].freed)
    => keyspace_size = SumSizes(DOMAIN dbs)

\* The step is a request of client c that writes or expires data: a PUT, a
\* GET, a TTL, a DEL, an INC, a DEC, on a key or on a prefix, or a flush
WriteStep(c) ==
    \/ /\ request'.op = "PUT"
       /\ \E key \in Keys, val \in Vals, ttl \in TtlVals :
             Put(c, key, val, ttl, request'.is_prefix)
    \/ /\ request'.op = "GET"
       /\ \E key \in Keys : Get(c, key)
    \/ /\ request'.op = "TTL"
       /\ \E key \in Keys, ttl \in TtlVals : Ttl(c, key, ttl)
    \/ /\ request'.op = "DEL"
       /\ IF request'.nokey THEN Flush(c)
          ELSE \E key \in Keys : Del(c, key, request'.is_prefix)
    \/ /\ request'.op = "INC"
       /\ \E key \in Keys : Inc(c, key, request'.is_prefix)
    \/ /\ request'.op = "DEC"
       /\ \E key \in Keys : Dec(c, key, request'.is_prefix)

C36_StoredKeyDeletable ==
    \A d \in DOMAIN dbs :
        ~dbs[d].freed
        => \A key \in Keys, val \in Vals :
             LET T1 == trie_insert(dbs[d], key, val, now)
                 r == trie_delete(T1, key)
             IN  /\ r.found
                 /\ trie_find(r.trie, key) = <<>>
                 /\ r.trie.size = T1.size - 1
                 /\ ~Stored(dbs[d], key) => r.trie.size = dbs[d].size

\* C37: whatever total length the header declares, up to max_request_size
\* and below HEADLEN included, recv_packet waits for more bytes only while
\* the ring buffer holds fewer than max(declared - HEADLEN, 0) body bytes,
\* and copies no more than that many.
C37_ShortDeclaredLength ==
    LET body == IF recv.declared > HEADLEN THEN recv.declared - HEADLEN ELSE 0
    IN  recv.pc \in {"wait", "copy", "done"}
        => /\ (recv.pc = "wait"
               /\ LessU32(recv.size, U32Minus(recv.tlen, HEADLEN)))
              => recv.size < body
           /\ recv.copied <= body

\* C38: at most one callback of run_server (a handler of a client or the
\* sweep) has been called and has not returned, and every step that changes
\* a trie or the TTL index is a step of that one callback, or the release
\* of the tables once the loop is left.
C38_SingleWriter ==
    [][/\ Cardinality(active') <= 1
       /\ (dbs' # dbs \/ expiring_keys' # expiring_keys)
          => \/ \E x \in Clients \cup {"timer"} :
                   active = {x} /\ loop = "in_call" /\ callback(x)
             \/ loop = "exit" /\ active = {}]_vars

\* A handler has been called while another event of the same batch waits
\* for it to return
C38_Witness_SecondEventWaits ==
    /\ ~crashed
    /\ loop = "in_call"
    /\ active = {"c1"}
    /\ evs \in {<<"c2">>, <<"timer">>, <<"c2", "timer">>, <<"timer", "c2">>}
    /\ conns["c1"].inbuf # <<>> /\ Head(conns["c1"].inbuf).op = "PUT"

\* C39: once the stop event is written to the eventfd, the loop observes
\* it, leaves run_server and start_server releases the tables and the TTL
\* index; from the moment the loop is left no callback is called.
C39_Shutdown ==
    /\ (run = 1) ~> (loop = "released")
    /\ [][(loop \in {"exit", "released"})
            => (/\ loop' \in {"exit", "released"}
                /\ active' = {}
                /\ nrequests' = nrequests)]_vars

\* The step ends as the outcome o of a handler
EndsAs(o) ==
    /\ dbs' = o.dbs
    /\ expiring_keys' = o.expiring_keys
    /\ keyspace_size' = o.keyspace_size
    /\ cdb' = o.cdb
    /\ reply' = o.reply
    /\ crashed' = o.crashed

\* C40: whichever way a point PUT with a TTL or a TTL command ends, every
\* struct expiring_key its handler allocated is in the TTL index or has
\* been freed.
C40_NoOrphanedTtlEntries ==
    [][\A c \in Clients, key \in Keys, ttl \in TtlVals :
         /\ (event' = "request" /\ request'.op = "TTL")
            => \A o \in ttl_handler(c, key, ttl) :
                 EndsAs(o) => o.leaked = 0
         /\ (event' = "request" /\ request'.op = "PUT" /\ ~request'.is_prefix)
            => \A val \in Vals : \A o \in put_handler(c, key, val, ttl, FALSE) :
                 EndsAs(o) => o.leaked = 0]_vars

====
